---- MODULE Spec2Model ----
(***************************************************************************)
(* A model of the MCP filesystem server (src/server.py): the path          *)
(* resolver _abs, the deny/allow policy _policy, the file verbs list_dir,  *)
(* read_text, write_text, mkdir, mv, rm, stat, and the command runner run. *)
(*                                                                         *)
(* Text is modelled as Python models it: a string is a sequence of         *)
(* one-character strings, a file's data is a sequence of bytes (0..255).   *)
(* Paths follow posixpath (os.sep = "/").                                  *)
(***************************************************************************)
EXTENDS Integers, Sequences, FiniteSets, TLC

VARIABLES
    ROOT_DIR,             \* configuration: the sandbox root (server.py:27)
    ENABLE_RUN_COMMANDS,  \* configuration: the run feature flag (server.py:28)
    DENY_GLOBS,           \* configuration: deny patterns, in order (server.py:31)
    ALLOW_GLOBS,          \* configuration: allow patterns, in order (server.py:30)
    fs,                   \* the filesystem: absolute path -> node
    last,                 \* the last request and what it returned or raised
    nreq,                 \* how many requests have been served
    pc,                   \* where run() stands: "idle", "communicate", "timed_out", "drain"
    proc,                 \* the child process and its pipes, while run() is active
    arg,                  \* input of the pure-function specifications
    ret                   \* output of the pure-function specifications

vars == <<ROOT_DIR, ENABLE_RUN_COMMANDS, DENY_GLOBS, ALLOW_GLOBS, fs, last, nreq,
          pc, proc, arg, ret>>

config == <<ROOT_DIR, ENABLE_RUN_COMMANDS, DENY_GLOBS, ALLOW_GLOBS>>

(***************************************************************************)
(* Bounds of the model.                                                    *)
(***************************************************************************)
MaxTokens == 4      \* tokens in an enumerated requested path
MaxDepth == 3       \* segments in an enumerated resolved path
MaxRequests == 2    \* requests served in one behaviour
MaxOutput == 1      \* chunks of output a child process writes

(***************************************************************************)
(* Strings.                                                                *)
(***************************************************************************)
sep == "/"

StartsWith(s, p) == Len(p) <= Len(s) /\ SubSeq(s, 1, Len(p)) = p

RECURSIVE lstrip(_, _)
\* str.lstrip(chars)
lstrip(s, chars) ==
    IF s # <<>> /\ Head(s) \in chars THEN lstrip(Tail(s), chars) ELSE s

RECURSIVE rstrip(_, _)
\* str.rstrip(chars)
rstrip(s, chars) ==
    IF s # <<>> /\ s[Len(s)] \in chars THEN rstrip(SubSeq(s, 1, Len(s) - 1), chars) ELSE s

RECURSIVE split(_, _)
\* str.split(c): the components between occurrences of c, at least one
split(s, c) ==
    IF \A i \in 1..Len(s) : s[i] # c THEN <<s>>
    ELSE LET i == CHOOSE k \in 1..Len(s) : s[k] = c /\ \A j \in 1..(k - 1) : s[j] # c
         IN  <<SubSeq(s, 1, i - 1)>> \o split(SubSeq(s, i + 1, Len(s)), c)

RECURSIVE joinWith(_, _)
\* c.join(comps)
joinWith(comps, c) ==
    IF comps = <<>> THEN <<>>
    ELSE IF Len(comps) = 1 THEN comps[1]
    ELSE comps[1] \o <<c>> \o joinWith(Tail(comps), c)

\* str.rfind(c) + 1: the index just after the last c, 0 when there is none
rfindPlus1(s, c) ==
    IF \A i \in 1..Len(s) : s[i] # c THEN 0
    ELSE CHOOSE k \in 1..Len(s) : s[k] = c /\ \A j \in (k + 1)..Len(s) : s[j] # c

(***************************************************************************)
(* posixpath, as os.path computes it.                                      *)
(***************************************************************************)
getcwd == <<"/">>

isabs(p) == StartsWith(p, <<sep>>)

\* os.path.join(a, b)
join(a, b) ==
    IF isabs(b) THEN b
    ELSE IF a = <<>> \/ a[Len(a)] = sep THEN a \o b
    ELSE a \o <<sep>> \o b

RECURSIVE normComps(_, _, _)
\* the loop of posixpath.normpath over the split components
normComps(comps, initial, new) ==
    IF comps = <<>> THEN new
    ELSE LET comp == Head(comps)
             rest == Tail(comps)
         IN  IF comp = <<>> \/ comp = <<".">> THEN normComps(rest, initial, new)
             ELSE IF comp # <<".", ".">>
                     \/ (initial = 0 /\ new = <<>>)
                     \/ (new # <<>> /\ new[Len(new)] = <<".", ".">>)
                  THEN normComps(rest, initial, Append(new, comp))
             ELSE IF new # <<>>
                  THEN normComps(rest, initial, SubSeq(new, 1, Len(new) - 1))
             ELSE normComps(rest, initial, new)

\* posixpath.normpath(path)
normpath(path) ==
    IF path = <<>> THEN <<".">>
    ELSE LET initial ==
                 IF ~StartsWith(path, <<sep>>) THEN 0
                 ELSE IF StartsWith(path, <<sep, sep>>) /\ ~StartsWith(path, <<sep, sep, sep>>)
                      THEN 2 ELSE 1
             body == joinWith(normComps(split(path, sep), initial, <<>>), sep)
             out == [i \in 1..initial |-> sep] \o body
         IN  IF out = <<>> THEN <<".">> ELSE out

\* os.path.abspath(path)
abspath(path) == normpath(IF isabs(path) THEN path ELSE join(getcwd, path))

\* os.path.dirname(p)
dirname(p) ==
    LET head == SubSeq(p, 1, rfindPlus1(p, sep))
    IN  IF head # <<>> /\ \E i \in 1..Len(head) : head[i] # sep
        THEN rstrip(head, {sep}) ELSE head

\* os.path.basename(p)
basename(p) == SubSeq(p, rfindPlus1(p, sep) + 1, Len(p))

\* the non-empty components of a path
parts(p) == SelectSeq(split(p, sep), LAMBDA x : x # <<>>)

\* length of the longest common prefix of two component lists
commonLen(a, b) ==
    LET n == IF Len(a) < Len(b) THEN Len(a) ELSE Len(b)
        same == {k \in 0..n : \A j \in 1..k : a[j] = b[j]}
    IN  CHOOSE k \in same : \A m \in same : m <= k

\* os.path.relpath(path, start)
relpath(path, start) ==
    LET startList == parts(abspath(start))
        pathList == parts(abspath(path))
        i == commonLen(startList, pathList)
        relList == [k \in 1..(Len(startList) - i) |-> <<".", ".">>]
                   \o SubSeq(pathList, i + 1, Len(pathList))
    IN  IF relList = <<>> THEN <<".">> ELSE joinWith(relList, sep)

(***************************************************************************)
(* Results: a returned value, or a raised exception with its message.      *)
(***************************************************************************)
Ok(v) == [err |-> "", msg |-> "", detail |-> <<>>, val |-> v]

Raise(cls, msg, detail) == [err |-> cls, msg |-> msg, detail |-> detail, val |-> <<>>]

Pending == [err |-> "pending", msg |-> "", detail |-> <<>>, val |-> <<>>]

\* the error taxonomy, by the exception the code raises
IsPathEscape(r) == r.err = "PermissionError" /\ r.msg = "Path escapes sandbox root"

IsPolicyDenied(r) ==
    r.err = "PermissionError" /\ r.msg \in {"Denied by policy: ", "Not allowed by policy"}

IsFeatureDisabled(r) ==
    r.err = "PermissionError" /\ r.msg = "run() is disabled by server policy"

IsCommandNotAllowed(r) == r.err = "PermissionError" /\ r.msg = "Command not in allowlist"

IsArgumentPrefixViolation(r) == r.err = "PermissionError" /\ r.msg = "Args must start with"

IsBoundaryViolation(r) ==
    \/ IsPathEscape(r) \/ IsPolicyDenied(r) \/ IsFeatureDisabled(r)
    \/ IsCommandNotAllowed(r) \/ IsArgumentPrefixViolation(r)

(***************************************************************************)
(* _abs: the path resolver.                                                *)
(***************************************************************************)
\* _abs with the separator left out of the prefix test
_abs_noSep(path) ==
    LET base == abspath(ROOT_DIR)
        target == abspath(join(base, lstrip(path, {"/", "\\"})))
    IN  IF ~(StartsWith(target, base) \/ target = base)
        THEN Raise("PermissionError", "Path escapes sandbox root", <<>>)
        ELSE Ok(target)

\* _abs without stripping the leading separators
_abs_noStrip(path) ==
    LET base == abspath(ROOT_DIR)
        target == abspath(join(base, path))
    IN  IF ~(StartsWith(target, base \o <<sep>>) \/ target = base)
        THEN Raise("PermissionError", "Path escapes sandbox root", <<>>)
        ELSE Ok(target)

_abs(path) ==
    LET base == abspath(ROOT_DIR)
        target == abspath(join(base, lstrip(path, {"/", "\\"})))
    IN  IF ~(StartsWith(target, base \o <<sep>>) \/ target = base)
        THEN Raise("PermissionError", "Path escapes sandbox root", <<>>)
        ELSE Ok(target)

(***************************************************************************)
(* Words used by the specifications.                                       *)
(***************************************************************************)
w_sandbox == <<"s", "a", "n", "d", "b", "o", "x">>
w_etc == <<"e", "t", "c">>
w_passwd == <<"p", "a", "s", "s", "w", "d">>
w_dotdot == <<".", ".">>

p_sandbox == <<sep>> \o w_sandbox
p_etc_passwd == <<sep>> \o w_etc \o <<sep>> \o w_passwd
p_up_up_etc_passwd == w_dotdot \o <<sep>> \o w_dotdot \o <<sep>> \o w_etc \o <<sep>> \o w_passwd
p_sandbox_etc_passwd == p_sandbox \o p_etc_passwd

(***************************************************************************)
(* SpecResolve: _abs applied to one requested path.                        *)
(***************************************************************************)
PathTokens == {<<sep>>, <<".">>, w_dotdot, <<"\\">>, <<"a">>, w_sandbox, <<"-", "o">>}

RECURSIVE TokenStrings(_)
\* the concatenations of at most n tokens
TokenStrings(n) ==
    IF n = 0 THEN {<<>>}
    ELSE LET shorter == TokenStrings(n - 1)
         IN  shorter \cup {s \o t : s \in shorter, t \in PathTokens}

RequestedPaths == TokenStrings(MaxTokens) \cup {p_etc_passwd, p_up_up_etc_passwd}

RootChoices == {p_sandbox, p_sandbox \o <<sep>>, <<sep>>, <<sep>> \o <<"a">> \o p_sandbox}

ResolveInit ==
    /\ ROOT_DIR \in RootChoices
    /\ ENABLE_RUN_COMMANDS = FALSE
    /\ DENY_GLOBS = <<>>
    /\ ALLOW_GLOBS = <<>>
    /\ fs = <<>>
    /\ last = Pending
    /\ nreq = 0
    /\ pc = "idle"
    /\ proc = <<>>
    /\ arg \in RequestedPaths
    /\ ret = Pending

Resolve ==
    /\ ret = Pending
    /\ ret' = _abs(arg)
    /\ UNCHANGED <<config, fs, last, nreq, pc, proc, arg>>

SpecResolve == ResolveInit /\ [][Resolve]_vars

\* C1: whatever the requested path, _abs either returns a path whose components
\* begin with exactly the components of SandboxRoot and hold no "." or ".."
\* (the root itself or a true descendant, never a sibling such as
\* /sandbox-o), or raises PathEscape.
C1_ResolveStaysInsideRoot ==
    ret # Pending =>
        \/ IsPathEscape(ret)
        \/ /\ ret.err = ""
           /\ LET rootParts == parts(abspath(ROOT_DIR))
                  got == parts(ret.val)
              IN  /\ Len(rootParts) <= Len(got)
                  /\ SubSeq(got, 1, Len(rootParts)) = rootParts
                  /\ \A i \in 1..Len(got) : got[i] \notin {<<".">>, w_dotdot}
                  /\ ret.val = <<sep>> \o joinWith(got, sep)

\* C1 witness: a request that climbs to the sibling /sandbox-o has been refused
C1_Witness ==
    /\ ROOT_DIR = p_sandbox
    /\ arg = w_dotdot \o <<sep>> \o w_sandbox \o <<"-", "o">>
    /\ IsPathEscape(ret)

\* C2 as stated: with root /sandbox, both /etc/passwd and ../../etc/passwd
\* fail with PathEscape
C2_Original ==
    (ROOT_DIR = p_sandbox /\ ret # Pending /\ arg \in {p_etc_passwd, p_up_up_etc_passwd})
        => IsPathEscape(ret)

\* C2 amended: with root /sandbox, ../../etc/passwd fails with PathEscape, and
\* /etc/passwd, its leading separator stripped, resolves to /sandbox/etc/passwd
C2_Amended ==
    (ROOT_DIR = p_sandbox /\ ret # Pending) =>
        /\ arg = p_up_up_etc_passwd => IsPathEscape(ret)
        /\ arg = p_etc_passwd => ret = Ok(p_sandbox_etc_passwd)

\* C2 witness: /etc/passwd has been resolved under root /sandbox
C2_Witness == ROOT_DIR = p_sandbox /\ arg = p_etc_passwd /\ ret # Pending

(***************************************************************************)
(* fnmatch and the policy engine.                                          *)
(***************************************************************************)
RECURSIVE fnmatch(_, _)
\* glob.fnmatch.fnmatch(name, pat) on POSIX (normcase changes nothing):
\* "*" matches any run of characters, "/" included, "?" any one character,
\* anything else itself.  No pattern of the model holds a "[".
fnmatch(name, pat) ==
    IF pat = <<>> THEN name = <<>>
    ELSE IF Head(pat) = "*"
         THEN fnmatch(name, Tail(pat)) \/ (name # <<>> /\ fnmatch(Tail(name), pat))
    ELSE IF Head(pat) = "?"
         THEN name # <<>> /\ fnmatch(Tail(name), Tail(pat))
    ELSE name # <<>> /\ Head(name) = Head(pat) /\ fnmatch(Tail(name), Tail(pat))

RECURSIVE denyLoop(_, _)
\* the for loop of _deny_check: the first pattern that matches raises
denyLoop(rel, pats) ==
    IF pats = <<>> THEN Ok(<<>>)
    ELSE IF fnmatch(rel, Head(pats))
         THEN Raise("PermissionError", "Denied by policy: ", Head(pats))
    ELSE denyLoop(rel, Tail(pats))

_deny_check(abs_path) == denyLoop(relpath(abs_path, ROOT_DIR), DENY_GLOBS)

_allow_check(abs_path) ==
    LET rel == relpath(abs_path, ROOT_DIR)
    IN  IF ~(\E i \in 1..Len(ALLOW_GLOBS) : fnmatch(rel, ALLOW_GLOBS[i]))
        THEN Raise("PermissionError", "Not allowed by policy", <<>>)
        ELSE Ok(<<>>)

\* _policy without the deny stage
_policy_allowOnly(abs_path) == _allow_check(abs_path)

_policy(abs_path) ==
    LET d == _deny_check(abs_path)
    IN  IF d.err # "" THEN d ELSE _allow_check(abs_path)

w_project == <<"p", "r", "o", "j", "e", "c", "t">>
w_git == <<".", "g", "i", "t">>
w_config == <<"c", "o", "n", "f", "i", "g">>
w_readme == <<"r", "e", "a", "d", "m", "e", ".", "m", "d">>
w_env == <<".", "e", "n", "v">>
w_ssh == <<".", "s", "s", "h">>
w_node_modules == <<"n", "o", "d", "e", "_", "m", "o", "d", "u", "l", "e", "s">>

g_any == <<"*", "*", sep, "*">>                                  \* "**/*"
g_env == <<"*", "*", sep>> \o w_env \o <<"*">>                   \* "**/.env*"
g_ssh == <<"*", "*", sep>> \o w_ssh \o <<sep, "*", "*">>         \* "**/.ssh/**"
g_git == <<"*", "*", sep>> \o w_git \o <<sep, "*", "*">>         \* "**/.git/**"
g_node == <<"*", "*", sep>> \o w_node_modules \o <<sep, "*", "*">>  \* "**/node_modules/**"
g_id == <<"*", "*", sep, "i", "d", "_", "*">>                    \* "**/id_*"
g_star == <<"*">>                                                \* "*"
g_md == <<"*", ".", "m", "d">>                                   \* "*.md"

DefaultAllow == <<g_any>>

DefaultDeny == <<g_env, g_ssh, g_git, g_node, g_id>>

(***************************************************************************)
(* SpecPolicy: _policy applied to one resolved path under one              *)
(* configuration of the deny-set and the allow-set.                        *)
(***************************************************************************)
PolicySegments == {w_project, w_git, w_config, w_readme, w_env}

RECURSIVE RelPaths(_)
\* the relative paths of at most n segments
RelPaths(n) ==
    IF n = 0 THEN {<<>>}
    ELSE LET shorter == RelPaths(n - 1)
         IN  shorter \cup {join(s, t) : s \in shorter, t \in PolicySegments}

\* the paths _abs returns for them
ResolvedPaths == {_abs(r).val : r \in RelPaths(MaxDepth)}

DenyConfigs == {DefaultDeny, <<g_git>>, <<>>, <<g_md, g_git>>, <<g_star>>}

AllowConfigs == {DefaultAllow, <<g_star>>, <<>>, <<g_md, g_any>>}

PolicyInit ==
    /\ ROOT_DIR = p_sandbox
    /\ ENABLE_RUN_COMMANDS = FALSE
    /\ DENY_GLOBS \in DenyConfigs
    /\ ALLOW_GLOBS \in AllowConfigs
    /\ fs = <<>>
    /\ last = Pending
    /\ nreq = 0
    /\ pc = "idle"
    /\ proc = <<>>
    /\ arg \in ResolvedPaths
    /\ ret = Pending

Policy ==
    /\ ret = Pending
    /\ ret' = _policy(arg)
    /\ UNCHANGED <<config, fs, last, nreq, pc, proc, arg>>

SpecPolicy == PolicyInit /\ [][Policy]_vars

\* the path relative to SandboxRoot, as the policy sees it
RelOfArg == relpath(arg, ROOT_DIR)

DenyMatches == {i \in 1..Len(DENY_GLOBS) : fnmatch(RelOfArg, DENY_GLOBS[i])}

AllowMatches == {i \in 1..Len(ALLOW_GLOBS) : fnmatch(RelOfArg, ALLOW_GLOBS[i])}

rel_project_git_config == w_project \o <<sep>> \o w_git \o <<sep>> \o w_config
rel_project_readme == w_project \o <<sep>> \o w_readme

\* C3: the policy check succeeds exactly when the relative path matches no
\* deny pattern and at least one allow pattern; a path matching a deny pattern
\* fails with PolicyDenied naming a deny pattern it matches, whatever the allow
\* set; with deny "**/.git/**" and allow "**/*", project/.git/config is denied
\* and project/readme.md is permitted.
C3_DenyBeforeAllow ==
    ret # Pending =>
        /\ ret.err = "" <=> (DenyMatches = {} /\ AllowMatches # {})
        /\ ret.err # "" => IsPolicyDenied(ret)
        /\ DenyMatches # {} =>
               /\ ret.msg = "Denied by policy: "
               /\ \E i \in DenyMatches : ret.detail = DENY_GLOBS[i]
        /\ (DENY_GLOBS = <<g_git>> /\ ALLOW_GLOBS = <<g_any>>) =>
               /\ RelOfArg = rel_project_git_config => IsPolicyDenied(ret)
               /\ RelOfArg = rel_project_readme => ret.err = ""

\* C3 witness: a path matching both a deny and an allow pattern has been denied
C3_Witness ==
    /\ DENY_GLOBS = <<g_git>>
    /\ ALLOW_GLOBS = <<g_any>>
    /\ RelOfArg = rel_project_git_config
    /\ AllowMatches # {}
    /\ IsPolicyDenied(ret)

\* C4 as stated: under the default configuration every resolved path that
\* matches no default deny pattern passes the policy check
C4_DefaultAllowMatchesEverything ==
    (ret # Pending /\ DENY_GLOBS = DefaultDeny /\ ALLOW_GLOBS = DefaultAllow
        /\ DenyMatches = {})
        => ret.err = ""

(***************************************************************************)
(* The filesystem.  fs maps every existing absolute path to its node; the  *)
(* directory "/" always exists.  There are no symbolic links and no        *)
(* permission bits in the model.                                           *)
(***************************************************************************)
Dir == [kind |-> "dir", data |-> <<>>]

File(bytes) == [kind |-> "file", data |-> bytes]

NoFiles == [q \in {} |-> Dir]

exists(f, p) == p = <<sep>> \/ p \in DOMAIN f

isdir(f, p) == p = <<sep>> \/ (p \in DOMAIN f /\ f[p].kind = "dir")

isfile(f, p) == p \in DOMAIN f /\ f[p].kind = "file"

put(f, p, node) == [q \in DOMAIN f \cup {p} |-> IF q = p THEN node ELSE f[q]]

\* the paths strictly below p
below(f, p) == {q \in DOMAIN f : StartsWith(q, p \o <<sep>>)}

\* the outcome of a filesystem call: an exception class ("" for none) and the
\* filesystem it leaves
Done(f) == [err |-> "", fs |-> f]

Failed(cls, f) == [err |-> cls, fs |-> f]

\* os.mkdir(p)
os_mkdir(f, p) ==
    IF exists(f, p) THEN Failed("FileExistsError", f)
    ELSE IF ~exists(f, dirname(p)) THEN Failed("FileNotFoundError", f)
    ELSE IF ~isdir(f, dirname(p)) THEN Failed("NotADirectoryError", f)
    ELSE Done(put(f, p, Dir))

\* the end of os.makedirs, after the parents have been made: up is the
\* outcome of making them (a FileExistsError from it is ignored)
makeLeaf(up, name, exist_ok) ==
    IF up.err \notin {"", "FileExistsError"} THEN up
    ELSE LET m == os_mkdir(up.fs, name)
         IN  IF m.err = "" THEN m
             ELSE IF ~exist_ok \/ ~isdir(up.fs, name) THEN m
             ELSE Done(up.fs)

RECURSIVE makedirs(_, _, _)
\* os.makedirs(name, exist_ok=exist_ok)
makedirs(f, name, exist_ok) ==
    IF dirname(name) # <<>> /\ basename(name) # <<>> /\ ~exists(f, dirname(name))
    THEN makeLeaf(makedirs(f, dirname(name), exist_ok), name, exist_ok)
    ELSE makeLeaf(Done(f), name, exist_ok)

\* os.remove(p)
os_remove(f, p) ==
    IF ~exists(f, p) THEN Failed("FileNotFoundError", f)
    ELSE IF isdir(f, p) THEN Failed("IsADirectoryError", f)
    ELSE Done([q \in DOMAIN f \ {p} |-> f[q]])

\* shutil.rmtree(p), p an existing directory
rmtree(f, p) == Done([q \in DOMAIN f \ ({p} \cup below(f, p)) |-> f[q]])

\* os.rename(src, dst) where dst does not exist: the subtree moves
os_rename(f, src, dst) ==
    IF ~exists(f, src) THEN Failed("FileNotFoundError", f)
    ELSE IF ~isdir(f, dirname(dst)) THEN Failed("FileNotFoundError", f)
    ELSE IF dst = src THEN Done(f)
    ELSE IF StartsWith(dst, src \o <<sep>>) THEN Failed("OSError", f)
    ELSE LET moved == {src} \cup below(f, src)
             to(q) == dst \o SubSeq(q, Len(src) + 1, Len(q))
             kept == DOMAIN f \ moved
         IN  Done([q \in kept \cup {to(m) : m \in moved} |->
                      IF q \in kept THEN f[q]
                      ELSE f[CHOOSE m \in moved : to(m) = q]])

\* shutil.move after os.rename raised: r is the outcome of os.rename
moveFallback(r, f, src, real_dst) ==
    IF r.err = "" THEN r
    ELSE IF isdir(f, src) /\ StartsWith(real_dst, src \o <<sep>>)
         THEN Failed("shutil.Error", f)
    ELSE IF r.err = "OSError" THEN r
    ELSE Failed("FileNotFoundError", f)

\* shutil.move(src, dst)
shutil_move(f, src, dst) ==
    IF isdir(f, dst) /\ src = dst THEN Done(f)
    ELSE IF isdir(f, dst) /\ exists(f, join(dst, basename(src)))
         THEN Failed("shutil.Error", f)
    ELSE IF isdir(f, dst)
         THEN moveFallback(os_rename(f, src, join(dst, basename(src))), f, src,
                           join(dst, basename(src)))
    ELSE moveFallback(os_rename(f, src, dst), f, src, dst)

\* ensure_root()
ensure_root(f) == makedirs(f, ROOT_DIR, TRUE)

(***************************************************************************)
(* Text files.  A content string is a sequence of code points; io.open in  *)
(* text mode encodes it as UTF-8 and translates newlines (newline=None).   *)
(***************************************************************************)
LF == 10

CR == 13

linesep == <<LF>>   \* os.linesep on POSIX

RECURSIVE translateWrite(_)
\* TextIOWrapper.write with newline=None: each "\n" becomes os.linesep
translateWrite(t) ==
    IF t = <<>> THEN <<>>
    ELSE (IF Head(t) = LF THEN linesep ELSE <<Head(t)>>) \o translateWrite(Tail(t))

RECURSIVE translateRead(_)
\* TextIOWrapper.read with newline=None: "\r\n" and "\r" become "\n"
translateRead(t) ==
    IF t = <<>> THEN <<>>
    ELSE IF Head(t) = CR /\ Len(t) >= 2 /\ t[2] = LF THEN <<LF>> \o translateRead(Tail(Tail(t)))
    ELSE IF Head(t) = CR THEN <<LF>> \o translateRead(Tail(t))
    ELSE <<Head(t)>> \o translateRead(Tail(t))

\* the UTF-8 bytes of one code point, <<>> for a surrogate (not encodable)
utf8(cp) ==
    IF cp < 128 THEN <<cp>>
    ELSE IF cp < 2048 THEN <<192 + (cp \div 64), 128 + (cp % 64)>>
    ELSE IF cp >= 55296 /\ cp <= 57343 THEN <<>>
    ELSE IF cp < 65536
         THEN <<224 + (cp \div 4096), 128 + ((cp \div 64) % 64), 128 + (cp % 64)>>
    ELSE <<240 + (cp \div 262144), 128 + ((cp \div 4096) % 64),
           128 + ((cp \div 64) % 64), 128 + (cp % 64)>>

\* the bytes b of one code point put before the encoding of the rest
encodeCons(b, rest) ==
    IF b = <<>> \/ rest.err # "" THEN [err |-> "UnicodeEncodeError", bytes |-> <<>>]
    ELSE [err |-> "", bytes |-> b \o rest.bytes]

RECURSIVE encode(_)
\* str.encode("utf-8"): [err, bytes]
encode(t) ==
    IF t = <<>> THEN [err |-> "", bytes |-> <<>>]
    ELSE encodeCons(utf8(Head(t)), encode(Tail(t)))

cont(b) == b >= 128 /\ b <= 191

\* the length of the UTF-8 sequence that lead byte b1 opens, 0 for none
seqLen(b1) ==
    IF b1 < 128 THEN 1
    ELSE IF b1 >= 194 /\ b1 <= 223 THEN 2
    ELSE IF b1 >= 224 /\ b1 <= 239 THEN 3
    ELSE IF b1 >= 240 /\ b1 <= 244 THEN 4
    ELSE 0

\* whether b begins with a well-formed sequence of n bytes
wellFormed(b, n) ==
    /\ n > 0
    /\ Len(b) >= n
    /\ \A i \in 2..n : cont(b[i])
    /\ (b[1] = 224 => b[2] >= 160)
    /\ (b[1] = 237 => b[2] <= 159)
    /\ (b[1] = 240 => b[2] >= 144)
    /\ (b[1] = 244 => b[2] <= 143)

\* the code point of the well-formed sequence of n bytes that b begins with
codePoint(b, n) ==
    IF n = 1 THEN b[1]
    ELSE IF n = 2 THEN (b[1] - 192) * 64 + (b[2] - 128)
    ELSE IF n = 3 THEN (b[1] - 224) * 4096 + (b[2] - 128) * 64 + (b[3] - 128)
    ELSE (b[1] - 240) * 262144 + (b[2] - 128) * 4096 + (b[3] - 128) * 64 + (b[4] - 128)

\* one decoded code point put before the decoding of the rest
decodeCons(cp, rest) ==
    IF rest.err # "" THEN rest ELSE [err |-> "", text |-> <<cp>> \o rest.text]

RECURSIVE decode(_)
\* bytes.decode("utf-8", errors="strict"): [err, text]
decode(b) ==
    IF b = <<>> THEN [err |-> "", text |-> <<>>]
    ELSE IF ~wellFormed(b, seqLen(b[1])) THEN [err |-> "UnicodeDecodeError", text |-> <<>>]
    ELSE decodeCons(codePoint(b, seqLen(b[1])),
                    decode(SubSeq(b, seqLen(b[1]) + 1, Len(b))))

(***************************************************************************)
(* sorted(): strings compare by code point.                                *)
(***************************************************************************)
Printable ==
    <<
       " ", "!", "\"", "#", "$", "%", "&", "'", "(", ")", "*", "+", ",", "-", ".", "/",
       "0", "1", "2", "3", "4", "5", "6", "7", "8", "9", ":", ";", "<", "=", ">", "?", "@",
       "A", "B", "C", "D", "E", "F", "G", "H", "I", "J", "K", "L", "M", "N", "O", "P", "Q",
       "R", "S", "T", "U", "V", "W", "X", "Y", "Z", "[", "\\", "]", "^", "_"
    >>

Lowercase ==
    <<
       "a", "b", "c", "d", "e", "f", "g", "h", "i", "j", "k", "l", "m", "n", "o", "p", "q",
       "r", "s", "t", "u", "v", "w", "x", "y", "z", "{", "|", "}", "~"
    >>

\* ord(c) of a printable ASCII character other than the backquote
ord(c) ==
    IF \E i \in 1..Len(Printable) : Printable[i] = c
    THEN 31 + CHOOSE i \in 1..Len(Printable) : Printable[i] = c
    ELSE 96 + CHOOSE i \in 1..Len(Lowercase) : Lowercase[i] = c

RECURSIVE strLE(_, _)
\* a <= b on strings
strLE(a, b) ==
    IF a = <<>> THEN TRUE
    ELSE IF b = <<>> THEN FALSE
    ELSE IF Head(a) # Head(b) THEN ord(Head(a)) < ord(Head(b))
    ELSE strLE(Tail(a), Tail(b))

RECURSIVE sorted(_)
\* sorted(S) of a set of strings
sorted(S) ==
    IF S = {} THEN <<>>
    ELSE LET m == CHOOSE x \in S : \A y \in S : strLE(x, y)
         IN  <<m>> \o sorted(S \ {m})

\* os.listdir(ap)
listdir(f, ap) == {basename(q) : q \in {x \in DOMAIN f : dirname(x) = ap}}

(***************************************************************************)
(* The verbs.  Each takes the filesystem and the request's arguments and   *)
(* yields what the handler returns or raises and the filesystem it leaves. *)
(***************************************************************************)
Out(r, f) == [res |-> r, fs |-> f]

OSErr(cls) == Raise(cls, "", <<>>)

\* the try/except of list_dir with the policy check left out
entryAllowed_noPolicy(fp) == TRUE

\* the try/except of list_dir: an entry the policy refuses is skipped
entryAllowed(fp) == _policy(fp).err # "PermissionError"

\* one pass of the for loop of list_dir: what name adds to the entries
entryOf(f, ap, name, glob_pattern, include_hidden) ==
    LET fp == join(ap, name)
    IN  IF ~include_hidden /\ StartsWith(name, <<".">>) THEN <<>>
        ELSE IF ~fnmatch(name, glob_pattern) THEN <<>>
        ELSE IF ~entryAllowed(fp) THEN <<>>
        ELSE <<[name |-> name, is_dir |-> isdir(f, fp)]>>

RECURSIVE entryLoop(_, _, _, _, _)
\* the for loop of list_dir over the sorted names
entryLoop(f, ap, names, glob_pattern, include_hidden) ==
    IF names = <<>> THEN <<>>
    ELSE entryOf(f, ap, Head(names), glob_pattern, include_hidden)
         \o entryLoop(f, ap, Tail(names), glob_pattern, include_hidden)

\* list_dir after ensure_root() and _abs(path): e and a are their outcomes
listResolved(e, a, glob_pattern, include_hidden) ==
    IF e.err # "" THEN Out(OSErr(e.err), e.fs)
    ELSE IF a.err # "" THEN Out(a, e.fs)
    ELSE IF ~isdir(e.fs, a.val)
         THEN Out(Raise("FileNotFoundError", "Not a directory", <<>>), e.fs)
    ELSE Out(Ok([path |-> relpath(a.val, ROOT_DIR),
                 entries |-> entryLoop(e.fs, a.val, sorted(listdir(e.fs, a.val)),
                                       glob_pattern, include_hidden)]),
             e.fs)

list_dir(f, path, glob_pattern, include_hidden) ==
    listResolved(ensure_root(f), _abs(path), glob_pattern, include_hidden)

\* ap = _abs(path); _policy(ap), after ensure_root() left filesystem f:
\* a is the outcome of _abs
policed(a, f) ==
    IF a.err # "" THEN Out(a, f)
    ELSE IF _policy(a.val).err # "" THEN Out(_policy(a.val), f)
    ELSE Out(a, f)

\* ensure_root(); ap = _abs(path); _policy(ap), e the outcome of ensure_root():
\* the resolved path, or what is raised
checkedRooted(e, path) ==
    IF e.err # "" THEN Out(OSErr(e.err), e.fs) ELSE policed(_abs(path), e.fs)

checked(f, path) == checkedRooted(ensure_root(f), path)

\* read_text after the checks: ap is the resolved path
readFile(f, ap) ==
    IF ~isfile(f, ap) THEN Out(Raise("FileNotFoundError", "File not found", <<>>), f)
    ELSE IF decode(f[ap].data).err # "" THEN Out(OSErr(decode(f[ap].data).err), f)
    ELSE Out(Ok([path |-> relpath(ap, ROOT_DIR),
                 content |-> translateRead(decode(f[ap].data).text)]), f)

readChecked(c) == IF c.res.err # "" THEN c ELSE readFile(c.fs, c.res.val)

read_text(f, path) == readChecked(checked(f, path))

\* the with block of write_text: the file is opened (created or truncated),
\* then the encoded text enc is written, unless encoding it raised
writeFile(f, ap, enc, n) ==
    IF isdir(f, ap) THEN Out(OSErr("IsADirectoryError"), f)
    ELSE IF ~exists(f, dirname(ap)) THEN Out(OSErr("FileNotFoundError"), f)
    ELSE IF ~isdir(f, dirname(ap)) THEN Out(OSErr("NotADirectoryError"), f)
    ELSE IF enc.err # "" THEN Out(OSErr(enc.err), put(f, ap, File(<<>>)))
    ELSE Out(Ok([written |-> TRUE, path |-> relpath(ap, ROOT_DIR), bytes |-> n]),
             put(f, ap, File(enc.bytes)))

\* write_text after the parent directories: m is the outcome of making them
writeMade(m, ap, content, overwrite) ==
    IF m.err # "" THEN Out(OSErr(m.err), m.fs)
    ELSE IF exists(m.fs, ap) /\ ~overwrite
         THEN Out(Raise("FileExistsError", "File exists and overwrite=False", <<>>), m.fs)
    ELSE writeFile(m.fs, ap, encode(translateWrite(content)), Len(encode(content).bytes))

writeChecked(c, content, create_dirs, overwrite) ==
    IF c.res.err # "" THEN c
    ELSE writeMade(IF create_dirs THEN makedirs(c.fs, dirname(c.res.val), TRUE)
                   ELSE Done(c.fs),
                   c.res.val, content, overwrite)

write_text(f, path, content, create_dirs, overwrite) ==
    writeChecked(checked(f, path), content, create_dirs, overwrite)

\* mkdir after the directory call: m is its outcome
mkdirMade(m, ap) ==
    IF m.err # "" THEN Out(OSErr(m.err), m.fs)
    ELSE Out(Ok([created |-> TRUE, path |-> relpath(ap, ROOT_DIR)]), m.fs)

mkdirChecked(c, parents, exist_ok) ==
    IF c.res.err # "" THEN c
    ELSE mkdirMade(IF parents THEN makedirs(c.fs, c.res.val, exist_ok)
                   ELSE os_mkdir(c.fs, c.res.val),
                   c.res.val)

mkdir(f, path, parents, exist_ok) == mkdirChecked(checked(f, path), parents, exist_ok)

\* mv after shutil.move: moved is its outcome
mvMoved(moved, aps, apd) ==
    IF moved.err # "" THEN Out(OSErr(moved.err), moved.fs)
    ELSE Out(Ok([moved |-> TRUE, src |-> relpath(aps, ROOT_DIR),
                 dst |-> relpath(apd, ROOT_DIR)]), moved.fs)

\* mv after os.makedirs(os.path.dirname(apd)): m is its outcome
mvMade(m, aps, apd, overwrite) ==
    IF m.err # "" THEN Out(OSErr(m.err), m.fs)
    ELSE IF exists(m.fs, apd) /\ ~overwrite
         THEN Out(Raise("FileExistsError", "Destination exists (overwrite=False)", <<>>),
                  m.fs)
    ELSE IF overwrite /\ exists(m.fs, apd) /\ isdir(m.fs, apd)
         THEN mvMoved(shutil_move(rmtree(m.fs, apd).fs, aps, apd), aps, apd)
    ELSE IF overwrite /\ exists(m.fs, apd)
         THEN mvMoved(shutil_move(os_remove(m.fs, apd).fs, aps, apd), aps, apd)
    ELSE mvMoved(shutil_move(m.fs, aps, apd), aps, apd)

\* mv after the checks of dst: cd is their outcome
mvDst(cd, aps, overwrite) ==
    IF cd.res.err # "" THEN cd
    ELSE mvMade(makedirs(cd.fs, dirname(cd.res.val), TRUE), aps, cd.res.val, overwrite)

\* mv after the checks of src: cs is their outcome
mvSrc(cs, dst, overwrite) ==
    IF cs.res.err # "" THEN cs
    ELSE mvDst(checked(cs.fs, dst), cs.res.val, overwrite)

mv(f, src, dst, overwrite) == mvSrc(checked(f, src), dst, overwrite)

\* rm after the removal: gone is its outcome
rmGone(gone, ap) ==
    IF gone.err # "" THEN Out(OSErr(gone.err), gone.fs)
    ELSE Out(Ok([removed |-> TRUE, path |-> relpath(ap, ROOT_DIR)]), gone.fs)

rmChecked(c, recursive) ==
    IF c.res.err # "" THEN c
    ELSE IF isdir(c.fs, c.res.val) /\ ~recursive
         THEN Out(Raise("IsADirectoryError", "Use recursive=True for directories", <<>>),
                  c.fs)
    ELSE IF isdir(c.fs, c.res.val) THEN rmGone(rmtree(c.fs, c.res.val), c.res.val)
    ELSE rmGone(os_remove(c.fs, c.res.val), c.res.val)

rm(f, path, recursive) == rmChecked(checked(f, path), recursive)

statChecked(c) ==
    IF c.res.err # "" THEN c
    ELSE IF ~exists(c.fs, c.res.val) THEN Out(OSErr("FileNotFoundError"), c.fs)
    ELSE IF isdir(c.fs, c.res.val)
         THEN Out(Ok([path |-> relpath(c.res.val, ROOT_DIR), is_dir |-> TRUE]), c.fs)
    ELSE Out(Ok([path |-> relpath(c.res.val, ROOT_DIR), is_dir |-> FALSE,
                 size |-> Len(c.fs[c.res.val].data)]), c.fs)

stat(f, path) == statChecked(checked(f, path))

(***************************************************************************)
(* run: the checks, then the child process.                                *)
(***************************************************************************)
w_bash == <<"b", "a", "s", "h">>
w_sh == <<"s", "h">>
w_python == <<"p", "y", "t", "h", "o", "n">>
w_pip == <<"p", "i", "p">>
w_rm == <<"r", "m">>

COMMAND_ALLOWLIST ==
    (w_bash :> <<"-lc">>) @@ (w_sh :> <<"-lc">>) @@ (w_python :> <<"-V">>)
        @@ (w_pip :> <<"--version">>)

RUN_MAX_STDOUT == 200000

\* the prefix test with the comparison left out
prefixOk_any(final_args, prefix) == TRUE

\* final_args[:len(prefix)] == prefix
prefixOk(final_args, prefix) ==
    LET n == IF Len(prefix) < Len(final_args) THEN Len(prefix) ELSE Len(final_args)
    IN  SubSeq(final_args, 1, n) = prefix

\* run() after the checks of cwd (c is their outcome) up to the Popen call
runAllowed(c, base, args) ==
    IF c.res.err # "" THEN c
    ELSE IF base \notin DOMAIN COMMAND_ALLOWLIST
         THEN Out(Raise("PermissionError", "Command not in allowlist", base), c.fs)
    ELSE IF ~prefixOk(args, COMMAND_ALLOWLIST[base])
         THEN Out(Raise("PermissionError", "Args must start with", COMMAND_ALLOWLIST[base]),
                  c.fs)
    ELSE c

\* run() up to the Popen call: what is raised, or Ok(the working directory)
runChecks(f, cmd, args, cwd) ==
    IF ~ENABLE_RUN_COMMANDS
    THEN Out(Raise("PermissionError", "run() is disabled by server policy", <<>>), f)
    ELSE runAllowed(checked(f, cwd), basename(cmd), args)

NoProc == [child |-> "none", rc |-> <<>>, holder |-> FALSE, out |-> 0]

\* (out or "")[:RUN_MAX_STDOUT], as a length
truncated(n) == IF n < RUN_MAX_STDOUT THEN n ELSE RUN_MAX_STDOUT

Request(verb, args, res) == [verb |-> verb, args |-> args, res |-> res, spawned |-> FALSE]

NoRequest == Request("none", <<>>, Pending)

(***************************************************************************)
(* Spec: requests served one at a time against the filesystem.             *)
(***************************************************************************)
w_p == <<"p">>
w_a == <<"a">>
w_b == <<"b">>
w_k == <<"k">>
w_o == <<"o">>

r_root == <<>>
r_p == w_p
r_p_a == w_p \o <<sep>> \o w_a
r_p_a_b == r_p_a \o <<sep>> \o w_b
r_p_env == w_p \o <<sep>> \o w_env
r_escape == w_dotdot \o <<sep>> \o w_o

Paths == {r_root, r_p, r_p_a, r_p_a_b, r_p_env, r_escape}

g_dotenv == <<"*">> \o w_env                \* "*.env"
g_a == <<"a", "*">>                         \* "a*"

Configs == {<<DefaultDeny, DefaultAllow>>, <<<<g_dotenv>>, <<g_star>>>>}

Contents == {<<97, LF>>, <<CR, LF, 233>>, <<55296>>}

under(rel) == p_sandbox \o <<sep>> \o rel

F_absent == NoFiles

F_rootfile == put(NoFiles, p_sandbox, File(<<>>))

F_empty == put(NoFiles, p_sandbox, Dir)

F_tree ==
    put(put(put(put(F_empty, under(r_p), Dir), under(r_p_a), File(<<97>>)),
            under(r_p_env), Dir),
        under(r_p_env \o <<sep>> \o w_k), File(<<107>>))

F_deep ==
    put(put(put(F_empty, under(r_p), Dir), under(r_p_a), Dir),
        under(r_p_a_b), File(<<255>>))

InitialFilesystems == {F_absent, F_rootfile, F_empty, F_tree, F_deep}

Init ==
    /\ ROOT_DIR = p_sandbox
    /\ ENABLE_RUN_COMMANDS = FALSE
    /\ \E c \in Configs : DENY_GLOBS = c[1] /\ ALLOW_GLOBS = c[2]
    /\ fs \in InitialFilesystems
    /\ last = NoRequest
    /\ nreq = 0
    /\ pc = "idle"
    /\ proc = NoProc
    /\ arg = <<>>
    /\ ret = Pending

\* a request is accepted when none is being served
Accept == pc = "idle" /\ nreq < MaxRequests

Serve(verb, args, o) ==
    /\ fs' = o.fs
    /\ last' = Request(verb, args, o.res)
    /\ nreq' = nreq + 1
    /\ UNCHANGED <<config, pc, proc, arg, ret>>

ListDir ==
    /\ Accept
    /\ \E path \in Paths, glob_pattern \in {g_star, g_a}, include_hidden \in BOOLEAN :
           Serve("list_dir",
                 [path |-> path, glob_pattern |-> glob_pattern,
                  include_hidden |-> include_hidden],
                 list_dir(fs, path, glob_pattern, include_hidden))

ReadText ==
    /\ Accept
    /\ \E path \in Paths : Serve("read_text", [path |-> path], read_text(fs, path))

WriteText ==
    /\ Accept
    /\ \E path \in Paths \ {r_root}, content \in Contents, create_dirs \in BOOLEAN, overwrite \in BOOLEAN :
           Serve("write_text",
                 [path |-> path, content |-> content, create_dirs |-> create_dirs,
                  overwrite |-> overwrite],
                 write_text(fs, path, content, create_dirs, overwrite))

MkDir ==
    /\ Accept
    /\ \E path \in Paths \ {r_root}, parents \in BOOLEAN, exist_ok \in BOOLEAN :
           Serve("mkdir", [path |-> path, parents |-> parents, exist_ok |-> exist_ok],
                 mkdir(fs, path, parents, exist_ok))

Mv ==
    /\ Accept
    /\ \E src \in Paths \ {r_root}, dst \in {r_p_a, r_p_a_b, r_p_env, r_escape}, overwrite \in BOOLEAN :
           Serve("mv", [src |-> src, dst |-> dst, overwrite |-> overwrite],
                 mv(fs, src, dst, overwrite))

Rm ==
    /\ Accept
    /\ \E path \in Paths, recursive \in BOOLEAN :
           Serve("rm", [path |-> path, recursive |-> recursive], rm(fs, path, recursive))

Stat ==
    /\ Accept
    /\ \E path \in Paths : Serve("stat", [path |-> path], stat(fs, path))

Next == ListDir \/ ReadText \/ WriteText \/ MkDir \/ Mv \/ Rm \/ Stat

Spec == Init /\ [][Next]_vars

\* whether the resolver or the policy refuses a requested path
Refused(path) == _abs(path).err # "" \/ _policy(_abs(path).val).err # ""

\* the path arguments of the last request
PathArgs ==
    IF last.verb = "none" THEN {}
    ELSE IF last.verb = "mv" THEN {last.args.src, last.args.dst}
    ELSE IF last.verb = "run" THEN {last.args.cwd}
    ELSE {last.args.path}

\* C8 as stated: a successful writeText(p, content) followed at once by
\* readText(p) returns exactly content
C8_RoundTrip ==
    [][(/\ last.verb = "write_text"
        /\ last.res.err = ""
        /\ last'.verb = "read_text"
        /\ last'.args.path = last.args.path)
       => (last'.res.err = "" /\ last'.res.val.content = last.args.content)]_vars

\* C9 as stated: a verb acts on a requested path only after the resolver and
\* the policy have accepted it, so a request with a refused path argument ends
\* in PathEscape or PolicyDenied and nothing else
C9_EveryVerbChecksPolicy ==
    (last.verb # "none" /\ isdir(fs, ROOT_DIR) /\ \E path \in PathArgs : Refused(path))
        => (IsPathEscape(last.res) \/ IsPolicyDenied(last.res))

\* C10 as stated: a request that ends in a boundary violation leaves the
\* filesystem as it found it, also when the sandbox root did not exist yet
C10_NoPartialEffect ==
    [][(nreq' = nreq + 1 /\ IsBoundaryViolation(last'.res)) => fs' = fs]_vars

(***************************************************************************)
(* SpecList: list_dir over directories holding any mix of entries.         *)
(***************************************************************************)
w_ab == <<"a", "b">>
w_id_k == <<"i", "d", "_", "k">>

\* the entries a listed directory may hold, each with its kind
EntryKinds == (w_a :> File(<<97>>)) @@ (w_ab :> Dir) @@ (w_env :> File(<<>>))
                  @@ (w_id_k :> File(<<107>>))

\* /sandbox/p holding the entries named in S
Holding(S) ==
    [q \in {p_sandbox, under(r_p)} \cup {under(join(r_p, n)) : n \in S} |->
        IF q \in {p_sandbox, under(r_p)} THEN Dir
        ELSE EntryKinds[basename(q)]]

ListFilesystems == {Holding(S) : S \in SUBSET DOMAIN EntryKinds} \cup {F_absent, F_rootfile}

ListInit ==
    /\ ROOT_DIR = p_sandbox
    /\ ENABLE_RUN_COMMANDS = FALSE
    /\ \E c \in Configs : DENY_GLOBS = c[1] /\ ALLOW_GLOBS = c[2]
    /\ fs \in ListFilesystems
    /\ last = NoRequest
    /\ nreq = 0
    /\ pc = "idle"
    /\ proc = NoProc
    /\ arg = <<>>
    /\ ret = Pending

SpecList == ListInit /\ [][ListDir]_vars

\* the directory the last request names
ListedDir == _abs(last.args.path).val

\* the entries of it that pass the hidden-name filter, the name glob and the policy
Expected ==
    {n \in listdir(fs, ListedDir) :
        /\ last.args.include_hidden \/ ~StartsWith(n, <<".">>)
        /\ fnmatch(n, last.args.glob_pattern)
        /\ _policy(join(ListedDir, n)).err = ""}

Commands == {w_bash, <<sep>> \o w_o \o <<sep>> \o w_bash, w_rm}

ArgLists == {<<"-lc", "echo hi">>, <<"-c", "echo hi">>, <<>>}

RunDirs == {r_root, r_p, r_p_a, r_escape}

\* the rest of RunCall: o is the outcome of the checks
Popen(o, req, startable) ==
    /\ fs' = o.fs
    /\ nreq' = nreq + 1
    /\ IF o.res.err # ""
       THEN /\ last' = Request("run", req, o.res)
            /\ UNCHANGED <<pc, proc>>
       ELSE IF ~isdir(o.fs, o.res.val) \/ ~startable
       THEN /\ last' = Request("run", req, Ok([ok |-> FALSE, error |-> "spawn"]))
            /\ UNCHANGED <<pc, proc>>
       ELSE /\ last' = [Request("run", req, Pending) EXCEPT !.spawned = TRUE]
            /\ pc' = "communicate"
            /\ proc' = [child |-> "running", rc |-> <<>>, holder |-> FALSE, out |-> 0]
    /\ UNCHANGED <<config, arg, ret>>

\* run(cmd, args, cwd): the checks and the Popen call.  Popen raises when the
\* working directory is no directory or the executable cannot be started;
\* run() catches that and returns {"ok": False, "error": ...}.
RunCall ==
    /\ Accept
    /\ \E cmd \in Commands, args \in ArgLists, cwd \in RunDirs, startable \in BOOLEAN :
           Popen(runChecks(fs, cmd, args, cwd), [cmd |-> cmd, args |-> args, cwd |-> cwd],
                 startable)

\* the child writes to its standard output
ChildWrites ==
    /\ proc.child = "running"
    /\ proc.out < MaxOutput
    /\ proc' = [proc EXCEPT !.out = @ + 1]
    /\ UNCHANGED <<config, fs, last, nreq, pc, arg, ret>>

\* the child starts a process of its own, which inherits the pipes
ChildForks ==
    /\ proc.child = "running"
    /\ ~proc.holder
    /\ proc' = [proc EXCEPT !.holder = TRUE]
    /\ UNCHANGED <<config, fs, last, nreq, pc, arg, ret>>

\* the child exits by itself
ChildExits ==
    /\ proc.child = "running"
    /\ \E rc \in {0, 1} : proc' = [proc EXCEPT !.child = "exited", !.rc = <<rc>>]
    /\ UNCHANGED <<config, fs, last, nreq, pc, arg, ret>>

\* the process the child started exits and lets go of the pipes
HolderExits ==
    /\ proc.holder
    /\ proc' = [proc EXCEPT !.holder = FALSE]
    /\ UNCHANGED <<config, fs, last, nreq, pc, arg, ret>>

\* proc.communicate(timeout=timeout_sec) returns: both pipes are at end of
\* file and the child has been waited for
CommunicateReturns ==
    /\ pc = "communicate"
    /\ proc.child = "exited"
    /\ ~proc.holder
    /\ last' = [last EXCEPT !.res = Ok([ok |-> proc.rc = <<0>>, rc |-> proc.rc,
                                        error |-> "", stdout |-> truncated(proc.out)])]
    /\ pc' = "idle"
    /\ proc' = NoProc
    /\ UNCHANGED <<config, fs, nreq, arg, ret>>

\* the deadline elapses first: communicate raises TimeoutExpired
TimeoutExpired ==
    /\ pc = "communicate"
    /\ pc' = "timed_out"
    /\ UNCHANGED <<config, fs, last, nreq, proc, arg, ret>>

\* proc.kill()
Kill ==
    /\ pc = "timed_out"
    /\ proc' = IF proc.child = "running"
               THEN [proc EXCEPT !.child = "killed", !.rc = <<-9>>] ELSE proc
    /\ pc' = "drain"
    /\ UNCHANGED <<config, fs, last, nreq, arg, ret>>

\* proc.communicate() after the kill: it returns at end of file on both pipes
Drain ==
    /\ pc = "drain"
    /\ ~proc.holder
    /\ last' = [last EXCEPT !.res = Ok([ok |-> FALSE, rc |-> <<>>, error |-> "timeout",
                                        stdout |-> truncated(proc.out)])]
    /\ pc' = "idle"
    /\ proc' = NoProc
    /\ UNCHANGED <<config, fs, nreq, arg, ret>>

RunInit ==
    /\ ROOT_DIR = p_sandbox
    /\ ENABLE_RUN_COMMANDS \in BOOLEAN
    /\ \E c \in Configs : DENY_GLOBS = c[1] /\ ALLOW_GLOBS = c[2]
    /\ fs \in {F_absent, F_rootfile, F_deep}
    /\ last = NoRequest
    /\ nreq = 0
    /\ pc = "idle"
    /\ proc = NoProc
    /\ arg = <<>>
    /\ ret = Pending

RunNext ==
    \/ RunCall \/ ChildWrites \/ ChildForks \/ ChildExits \/ HolderExits
    \/ CommunicateReturns \/ TimeoutExpired \/ Kill \/ Drain

SpecRun == RunInit /\ [][RunNext]_vars

\* The wait in communicate(timeout) ends: the child's exit or the deadline comes
\* first.  kill() and the second communicate() are then the server's own steps.
\* Nothing obliges the child, or a process it started, to exit.
FairSpecRun ==
    /\ SpecRun
    /\ WF_vars(CommunicateReturns \/ TimeoutExpired)
    /\ WF_vars(Kill)
    /\ WF_vars(Drain)

\* the checks run() makes on its working directory
CwdChecks == checked(fs, last.args.cwd).res

\* whether the arguments begin, element by element, with the required prefix
BeginsWith(args, prefix) ==
    Len(prefix) <= Len(args) /\ \A i \in 1..Len(prefix) : args[i] = prefix[i]

KnownCommand == basename(last.args.cmd) \in DOMAIN COMMAND_ALLOWLIST

PrefixHolds == BeginsWith(last.args.args, COMMAND_ALLOWLIST[basename(last.args.cmd)])

\* C5 as stated: a child is spawned only when the feature is on, the basename
\* is a key of CommandSpec and the arguments begin with its prefix; otherwise
\* the request fails with FeatureDisabled when the feature is off, with
\* CommandNotAllowed when the basename is no key, with
\* ArgumentPrefixViolation when the prefix does not match (the sandbox root
\* being a directory, as the claim takes it to be)
C5_Original ==
    (last.verb = "run" /\ isdir(fs, ROOT_DIR)) =>
        /\ last.spawned => (ENABLE_RUN_COMMANDS /\ KnownCommand /\ PrefixHolds)
        /\ ~ENABLE_RUN_COMMANDS => IsFeatureDisabled(last.res)
        /\ (ENABLE_RUN_COMMANDS /\ ~KnownCommand) => IsCommandNotAllowed(last.res)
        /\ (ENABLE_RUN_COMMANDS /\ KnownCommand /\ ~PrefixHolds)
               => IsArgumentPrefixViolation(last.res)

\* C5 amended: a child is spawned only when the feature is on, the working
\* directory passes the root, resolver and policy checks, the basename is a key
\* of CommandSpec and the arguments begin with its prefix.  Otherwise nothing
\* is spawned and the request fails: with FeatureDisabled when the feature is
\* off, whatever the other arguments; else with what the working directory's
\* checks raise (PathEscape, PolicyDenied, or the error of creating the root);
\* else with CommandNotAllowed when the basename is no key; else with
\* ArgumentPrefixViolation when the prefix does not match.
C5_RunChecksInOrder ==
    last.verb = "run" =>
        /\ last.spawned =>
               (ENABLE_RUN_COMMANDS /\ CwdChecks.err = "" /\ KnownCommand /\ PrefixHolds)
        /\ ~ENABLE_RUN_COMMANDS => IsFeatureDisabled(last.res)
        /\ (ENABLE_RUN_COMMANDS /\ CwdChecks.err # "") =>
               /\ last.res = CwdChecks
               /\ IsPathEscape(last.res) \/ IsPolicyDenied(last.res)
                      \/ last.res.err = "FileExistsError"
        /\ (ENABLE_RUN_COMMANDS /\ CwdChecks.err = "" /\ ~KnownCommand)
               => IsCommandNotAllowed(last.res)
        /\ (ENABLE_RUN_COMMANDS /\ CwdChecks.err = "" /\ KnownCommand /\ ~PrefixHolds)
               => IsArgumentPrefixViolation(last.res)
        /\ last.res.err \notin {"", "pending"} => ~last.spawned

\* C5 witness: bash -lc "echo hi" has been spawned, and a request with the
\* wrong prefix could not have been
C5_Witness ==
    /\ last.verb = "run"
    /\ last.args.cmd = w_bash
    /\ last.args.args = <<"-lc", "echo hi">>
    /\ last.spawned
    /\ pc = "communicate"
    /\ ~BeginsWith(<<"-c", "echo hi">>, COMMAND_ALLOWLIST[w_bash])

\* C6 as stated: a child still running at the deadline is killed and the
\* result is ok=false, error "timeout", return code none; run always returns,
\* and when it has returned the child is running no more
C6_RunAlwaysReturns ==
    /\ [](pc = "drain" => proc.child # "running")
    /\ []((last.verb = "run" /\ last.res.err = "" /\ last.res.val.error = "timeout")
            => (~last.res.val.ok /\ last.res.val.rc = <<>>))
    /\ [](pc = "idle" => proc.child \notin {"running"})
    /\ ((pc # "idle") ~> (pc = "idle"))

====
